---- MODULE Spec2Model ----
(***************************************************************************)
(* The prompt-to-edit pipeline of src-tauri/src/lib.rs: the vibe_edit      *)
(* command with its license lookup, filter resolution (remote inference    *)
(* with the keyword fallback), normalisation to three directives, the      *)
(* trial watermark, the ffmpeg run, the optional overlay render and the    *)
(* project-record insert.  Every external call (sqlite, curl, ffmpeg,      *)
(* ffprobe, node) is one step of a request; its outcome is an input.       *)
(***************************************************************************)
EXTENDS Integers, Sequences, FiniteSets, TLC

\* Longest "filters" array the inference service is modelled to return.
MaxFilters == 4

\* Most lines of diagnostic output ffmpeg is modelled to print on failure.
MaxLines == 6

\* Lines of ffmpeg diagnostic output kept in the error message.
StderrLinesKept == 5

\* Length of the chain produced by ensure_three_filters.
ChainLen == 3

\* Seconds used for the overlay when ffprobe gives no duration.
DefaultDurationSec == 30

\* The command handlers that may be in flight.
Reqs == {1, 2}

(***************************************************************************)
(* Text.  A prompt is a sequence of characters, so that to_lowercase and   *)
(* str::contains are computed on the characters as the code does.          *)
(***************************************************************************)
PromptEnergeticCalm ==
  <<"s", "o", " ", "e", "n", "e", "r", "g", "e", "t", "i", "c", " ", "a", "n", "d", " ", "c", "a", "l", "m">>

PromptChill ==
  <<"m", "a", "k", "e", " ", "i", "t", " ", "c", "h", "i", "l", "l">>

PromptAnimation ==
  <<"p", "l", "e", "a", "s", "e", " ", "a", "d", "d", " ", "a", "n", "i", "m", "a", "t", "i", "o", "n", " ", "t", "o", " ", "t", "h", "i", "s", " ", "c", "l", "i", "p">>

PromptBreakfast ==
  <<"B", "r", "e", "a", "k", "f", "a", "s", "t", " ", "O", "V", "E", "R", "L", "A", "Y">>

PromptCalm ==
  <<"C", "a", "l", "m">>

PromptGo ==
  <<"g", "o">>

KwEnergetic ==
  <<"e", "n", "e", "r", "g", "e", "t", "i", "c">>

KwFast ==
  <<"f", "a", "s", "t">>

KwChill ==
  <<"c", "h", "i", "l", "l">>

KwCalm ==
  <<"c", "a", "l", "m">>

KwAddAnimation ==
  <<"a", "d", "d", " ", "a", "n", "i", "m", "a", "t", "i", "o", "n">>

KwAnimationInBetween ==
  <<"a", "n", "i", "m", "a", "t", "i", "o", "n", " ", "i", "n", " ", "b", "e", "t", "w", "e", "e", "n">>

KwTransparentOverlay ==
  <<"t", "r", "a", "n", "s", "p", "a", "r", "e", "n", "t", " ", "o", "v", "e", "r", "l", "a", "y">>

KwOverlay ==
  <<"o", "v", "e", "r", "l", "a", "y">>

UpperCase ==
  <<"A", "B", "C", "D", "E", "F", "G", "H", "I", "J", "K", "L", "M", "N", "O", "P", "Q", "R", "S", "T", "U", "V", "W", "X", "Y", "Z">>

LowerCase ==
  <<"a", "b", "c", "d", "e", "f", "g", "h", "i", "j", "k", "l", "m", "n", "o", "p", "q", "r", "s", "t", "u", "v", "w", "x", "y", "z">>

to_lowercase_char(c) ==
  IF \E i \in 1..Len(UpperCase) : UpperCase[i] = c
    THEN LowerCase[CHOOSE i \in 1..Len(UpperCase) : UpperCase[i] = c]
    ELSE c

to_lowercase(s) ==
  [i \in 1..Len(s) |-> to_lowercase_char(s[i])]

contains(s, pat) ==
  \E i \in 0..(Len(s) - Len(pat)) : \A j \in 1..Len(pat) : s[i + j] = pat[j]

take(s, n) ==
  SubSeq(s, 1, IF Len(s) < n THEN Len(s) ELSE n)

\* slice::join: the items with the separator between consecutive items.
join(s, sep) ==
  [i \in 1..(IF Len(s) = 0 THEN 0 ELSE 2 * Len(s) - 1) |->
     IF i % 2 = 1 THEN s[(i + 1) \div 2] ELSE sep]

(***************************************************************************)
(* Filter directives.                                                      *)
(***************************************************************************)
NoOpFilter == "hue=s=1"

\* The build for a target other than macOS.
drawtext_font == "fontfile=FreeSerif.ttf"

drawtext(text) ==
  [kind |-> "drawtext", font |-> drawtext_font, text |-> text]

Plain(s) ==
  [kind |-> "plain", font |-> "", text |-> s]

watermark_filter == drawtext("TRIAL")

\* ensure_three_filters without the truncate(3).
ensure_three_filters_no_truncate(filters) ==
  filters \o [i \in 1..(IF Len(filters) < ChainLen THEN ChainLen - Len(filters) ELSE 0)
                |-> Plain(NoOpFilter)]

ensure_three_filters(filters) ==
  take(filters \o [i \in 1..(IF Len(filters) < ChainLen THEN ChainLen - Len(filters) ELSE 0)
                     |-> Plain(NoOpFilter)],
       ChainLen)

apply_watermark(filters, trial_watermark) ==
  IF trial_watermark
    THEN IF Len(filters) >= 3
           THEN [filters EXCEPT ![3] = watermark_filter]
           ELSE Append(filters, watermark_filter)
    ELSE filters

wants_overlay(prompt) ==
  LET p == to_lowercase(prompt) IN
    \/ contains(p, KwAddAnimation)
    \/ contains(p, KwAnimationInBetween)
    \/ contains(p, KwTransparentOverlay)
    \/ contains(p, KwOverlay)

fallback_filters(prompt) ==
  LET p == to_lowercase(prompt) IN
    IF contains(p, KwEnergetic) \/ contains(p, KwFast)
      THEN <<Plain("setpts=0.85*PTS"), Plain("hue=s=1.25"), drawtext("VIBE: ENERGETIC")>>
      ELSE IF contains(p, KwChill) \/ contains(p, KwCalm)
        THEN <<Plain("setpts=1.05*PTS"), Plain("hue=s=0.8"), drawtext("VIBE: CHILL")>>
        ELSE <<Plain("setpts=1.0*PTS"), Plain("hue=s=1.0"), drawtext("VIBE: ACTION")>>

(***************************************************************************)
(* The inference service.  A reply is what the curl child process and the  *)
(* server behind it produce: whether curl could be spawned, its exit       *)
(* status, the HTTP status of the response (curl runs with -sS and no      *)
(* --fail, so the status does not reach the exit status) and the body.     *)
(***************************************************************************)
RemoteDirective ==
  <<"vflip", "negate", "hflip", "eq=contrast=1.2", "transpose=1", "edgedetect">>

\* A JSON value of the "filters" array that is not a string.
NonString ==
  [is_str |-> FALSE, s |-> Plain("")]

FilterArrays ==
  UNION { { [i \in 1..n |-> IF b[i] THEN [is_str |-> TRUE, s |-> Plain(RemoteDirective[i])]
                                     ELSE NonString] : b \in [1..n -> BOOLEAN] }
          : n \in 0..MaxFilters }

InnerTexts ==
  { [json |-> "invalid", filters |-> "missing", items |-> <<>>],
    [json |-> "value", filters |-> "missing", items |-> <<>>],
    [json |-> "value", filters |-> "notarray", items |-> <<>>] }
  \cup { [json |-> "value", filters |-> "array", items |-> a] : a \in FilterArrays }

Bodies ==
  { [wellformed |-> FALSE, candidates |-> <<>>],
    [wellformed |-> TRUE, candidates |-> <<>>],
    [wellformed |-> TRUE, candidates |-> << [parts |-> <<>>] >>] }
  \cup { [wellformed |-> TRUE, candidates |-> << [parts |-> <<t>>] >>] : t \in InnerTexts }

HttpStatuses == {"200", "503"}

NoBody == [wellformed |-> FALSE, candidates |-> <<>>]

Replies ==
  { [spawn |-> FALSE, exit_ok |-> FALSE, http |-> "-", body |-> NoBody],
    [spawn |-> TRUE, exit_ok |-> FALSE, http |-> "-", body |-> NoBody] }
  \cup { [spawn |-> TRUE, exit_ok |-> TRUE, http |-> h, body |-> b]
         : h \in HttpStatuses, b \in Bodies }

Ok(filters) == [ok |-> TRUE, filters |-> filters, err |-> ""]

Err(e) == [ok |-> FALSE, filters |-> <<>>, err |-> e]

strings_of(items) ==
  LET kept == SelectSeq(items, LAMBDA f : f.is_str)
  IN  [i \in 1..Len(kept) |-> kept[i].s]

gemini_filters(prompt, api_key_set, reply) ==
  IF ~api_key_set THEN Err("GEMINI_API_KEY not set")
  ELSE IF ~reply.spawn THEN Err("io error")
  ELSE IF ~reply.exit_ok THEN Err("curl stderr")
  ELSE IF ~reply.body.wellformed THEN Err("serde envelope error")
  ELSE IF \/ Len(reply.body.candidates) = 0
          \/ Len(reply.body.candidates[1].parts) = 0
    THEN Err("Gemini response missing text")
  ELSE LET text == reply.body.candidates[1].parts[1] IN
    IF text.json = "invalid" THEN Err("serde inner error")
    ELSE IF text.filters # "array" THEN Err("Gemini JSON missing filters")
    ELSE Ok(strings_of(text.items))

(***************************************************************************)
(* The persistence store: the licenses table is read only, the projects    *)
(* table is the variable projects.                                         *)
(***************************************************************************)
Licenses ==
  { [license_key |-> "GOOD", valid |-> 1],
    [license_key |-> "REVOKED", valid |-> 0] }

\* The lookup without "AND valid = 1".
is_license_valid_any_row(key) ==
  \E row \in Licenses : row.license_key = key

is_license_valid(key) ==
  \E row \in Licenses : row.license_key = key /\ row.valid = 1

(***************************************************************************)
(* Paths are sequences of components.                                      *)
(***************************************************************************)
has_file_name(p) ==
  Len(p) > 0 /\ p[Len(p)] # ".."

with_file_name(p, name) ==
  IF has_file_name(p) THEN Append(SubSeq(p, 1, Len(p) - 1), name)
                      ELSE Append(p, name)

OutputName == "vibe_output.mp4"

OverlayName == "vibe_output_overlay.mp4"

output_of(input) == with_file_name(input, OutputName)

overlay_out_of(input) == with_file_name(input, OverlayName)

\* The error text of a failed ffmpeg run.
ffmpeg_error(stderr) ==
  IF Len(stderr) = 0
    THEN [kind |-> "FFmpeg failed (no stderr)", lines |-> <<>>]
    ELSE [kind |-> "FFmpeg failed:", lines |-> take(stderr, StderrLinesKept)]

IoError == [kind |-> "io error", lines |-> <<>>]

DbError == [kind |-> "sqlx error", lines |-> <<>>]

NoError == [kind |-> "", lines |-> <<>>]

(***************************************************************************)
(* Inputs.                                                                 *)
(***************************************************************************)
Some(v) == [some |-> TRUE, value |-> v]

Prompts ==
  {PromptEnergeticCalm, PromptChill, PromptAnimation, PromptBreakfast, PromptCalm, PromptGo}

InputPaths ==
  { <<"a", "clip.mp4">>, <<"a", "vibe_output.mp4">> }

LicenseKeys ==
  { [some |-> FALSE, value |-> ""], Some("GOOD"), Some("REVOKED"), Some("good") }

OverlayFlags ==
  { [some |-> FALSE, value |-> FALSE], Some(TRUE), Some(FALSE) }

Args ==
  [input_path : InputPaths, prompt : Prompts, license_key : LicenseKeys,
   add_overlay : OverlayFlags]

DiagLine ==
  <<"l1", "l2", "l3", "l4", "l5", "l6", "l7", "l8">>

Stderr(n) == [i \in 1..n |-> DiagLine[i]]

FfmpegOutcomes ==
  { [spawn |-> FALSE, status |-> 0, stderr |-> <<>>],
    [spawn |-> TRUE, status |-> 0, stderr |-> Stderr(1)] }
  \cup { [spawn |-> TRUE, status |-> 1, stderr |-> Stderr(n)] : n \in 0..MaxLines }

\* ffprobe: spawned or not, exit status, and whether stdout parses as f64.
ProbeOutcomes ==
  { [spawn |-> FALSE, status |-> 0, parses |-> FALSE, seconds |-> 0],
    [spawn |-> TRUE, status |-> 1, parses |-> FALSE, seconds |-> 0],
    [spawn |-> TRUE, status |-> 0, parses |-> FALSE, seconds |-> 0],
    [spawn |-> TRUE, status |-> 0, parses |-> TRUE, seconds |-> 12] }

NodeOutcomes ==
  { [spawn |-> FALSE, status |-> 0],
    [spawn |-> TRUE, status |-> 1],
    [spawn |-> TRUE, status |-> 0] }

video_duration_seconds(o) ==
  IF ~o.spawn THEN [ok |-> FALSE, seconds |-> 0]
  ELSE IF o.status # 0 THEN [ok |-> FALSE, seconds |-> 0]
  ELSE IF ~o.parses THEN [ok |-> FALSE, seconds |-> 0]
  ELSE [ok |-> TRUE, seconds |-> o.seconds]

(***************************************************************************)
(* State.  req[r] holds the locals of the vibe_edit call in slot r (its    *)
(* arguments, the bindings of the function body, its position pc and the   *)
(* value it returned); calls is the sequence of external calls it made.    *)
(* projects is the projects table in insertion order, files the video      *)
(* files written by the external engines.                                  *)
(***************************************************************************)
VARIABLES req, projects, files

vars == <<req, projects, files>>

NoResult ==
  [output_path |-> <<>>, filters |-> <<>>, used_gemini |-> FALSE, trial_watermark |-> FALSE]

NoCmd == [i |-> <<>>, vf |-> <<>>, out |-> <<>>]

Idle ==
  [pc |-> "idle",
   input_path |-> <<>>, prompt |-> <<>>,
   license_key |-> [some |-> FALSE, value |-> ""],
   add_overlay |-> [some |-> FALSE, value |-> FALSE],
   licensed |-> FALSE,
   gemini |-> Err(""), http |-> "-",
   candidate |-> <<>>, used_gemini |-> FALSE,
   normalized |-> <<>>, filters |-> <<>>, trial_watermark |-> FALSE,
   output |-> <<>>, ffmpeg_cmd |-> NoCmd,
   ffmpeg_out |-> [spawn |-> FALSE, status |-> 0, stderr |-> <<>>],
   final_output |-> <<>>, run_overlay |-> FALSE,
   probe |-> "-", duration_sec |-> 0, overlay_out |-> <<>>,
   script_exists |-> FALSE, node |-> "-", node_cmd |-> NoCmd, node_read |-> {},
   err |-> NoError, result |-> NoResult,
   calls |-> <<>>]

OldRecord ==
  [input_path |-> <<"a", "old.mp4">>, output_path |-> <<"a", "vibe_output.mp4">>,
   prompt |-> PromptGo]

InitialProjects == <<OldRecord>>

Init ==
  /\ req = [r \in Reqs |-> Idle]
  /\ projects = InitialProjects
  /\ files = {}

write_file(fs, path, in, vf) ==
  {f \in fs : f.path # path} \cup {[path |-> path, in |-> in, vf |-> vf]}

read_file(fs, path) ==
  {f \in fs : f.path = path}

\* The frontend invokes the command.
Invoke(r, a) ==
  /\ req[r].pc = "idle"
  /\ req' = [req EXCEPT ![r] = [@ EXCEPT !.pc = "license",
                                         !.input_path = a.input_path,
                                         !.prompt = a.prompt,
                                         !.license_key = a.license_key,
                                         !.add_overlay = a.add_overlay]]
  /\ UNCHANGED <<projects, files>>

\* The lookup with its error swallowed (unwrap_or(false)) instead of propagated.
LicenseCheck_swallow(r, db_ok) ==
  /\ req[r].pc = "license"
  /\ req' = [req EXCEPT ![r] =
       IF ~req[r].license_key.some
         THEN [@ EXCEPT !.pc = "resolve", !.licensed = FALSE]
         ELSE IF db_ok
           THEN [@ EXCEPT !.pc = "resolve",
                          !.licensed = is_license_valid(req[r].license_key.value),
                          !.calls = Append(@, "license")]
           ELSE [@ EXCEPT !.pc = "resolve", !.licensed = FALSE, !.err = DbError,
                          !.calls = Append(@, "license")]]
  /\ UNCHANGED <<projects, files>>

\* let licensed = if let Some(key) = license_key { is_license_valid(..).await? } else { false }
LicenseCheck(r, db_ok) ==
  /\ req[r].pc = "license"
  /\ req' = [req EXCEPT ![r] =
       IF ~req[r].license_key.some
         THEN [@ EXCEPT !.pc = "resolve", !.licensed = FALSE]
         ELSE IF db_ok
           THEN [@ EXCEPT !.pc = "resolve",
                          !.licensed = is_license_valid(req[r].license_key.value),
                          !.calls = Append(@, "license")]
           ELSE [@ EXCEPT !.pc = "failed", !.err = DbError,
                          !.calls = Append(@, "license")]]
  /\ UNCHANGED <<projects, files>>

\* gemini_filters or the fallback, ensure_three_filters, the watermark and
\* the output path: everything up to the ffmpeg call.
ResolveFilters(r, api_key_set, reply) ==
  /\ req[r].pc = "resolve"
  /\ LET g == gemini_filters(req[r].prompt, api_key_set, reply)
         cand == IF g.ok THEN g.filters ELSE fallback_filters(req[r].prompt)
         norm == ensure_three_filters(cand)
         trial == ~req[r].licensed
         fs == apply_watermark(norm, trial)
         out == output_of(req[r].input_path)
     IN req' = [req EXCEPT ![r] =
          [@ EXCEPT !.pc = "ffmpeg",
                    !.gemini = g,
                    !.http = IF api_key_set THEN reply.http ELSE "-",
                    !.candidate = cand,
                    !.used_gemini = g.ok,
                    !.normalized = norm,
                    !.filters = fs,
                    !.trial_watermark = trial,
                    !.output = out,
                    !.ffmpeg_cmd = [i |-> req[r].input_path, vf |-> join(fs, Plain(",")), out |-> out],
                    !.calls = IF api_key_set THEN Append(@, "curl") ELSE @]]
  /\ UNCHANGED <<projects, files>>

\* The decision with the prompt keywords able to override an explicit false.
overlay_decision_keywords_win(add_overlay, prompt) ==
  wants_overlay(prompt) \/ (add_overlay.some /\ add_overlay.value)

\* let run_overlay = add_overlay.unwrap_or_else(|| wants_overlay(&prompt));
overlay_decision(add_overlay, prompt) ==
  IF add_overlay.some THEN add_overlay.value ELSE wants_overlay(prompt)

\* The ffmpeg run, its failure message, and the overlay decision after it.
Transcode(r, o) ==
  /\ req[r].pc = "ffmpeg"
  /\ IF ~o.spawn
       THEN /\ req' = [req EXCEPT ![r] = [@ EXCEPT !.pc = "failed", !.err = IoError,
                                                  !.ffmpeg_out = o,
                                                  !.calls = Append(@, "ffmpeg")]]
            /\ UNCHANGED files
       ELSE IF o.status # 0
         THEN /\ req' = [req EXCEPT ![r] = [@ EXCEPT !.pc = "failed",
                                                    !.err = ffmpeg_error(o.stderr),
                                                    !.ffmpeg_out = o,
                                                    !.calls = Append(@, "ffmpeg")]]
              /\ UNCHANGED files
         ELSE LET run == overlay_decision(req[r].add_overlay, req[r].prompt) IN
              /\ req' = [req EXCEPT ![r] = [@ EXCEPT !.pc = IF run THEN "probe" ELSE "insert",
                                                    !.ffmpeg_out = o,
                                                    !.final_output = req[r].output,
                                                    !.run_overlay = run,
                                                    !.calls = Append(@, "ffmpeg")]]
              /\ files' = write_file(files, req[r].output, req[r].input_path, req[r].filters)
  /\ UNCHANGED projects

\* video_duration_seconds(..).unwrap_or(30.0), overlay_out, script.exists()
Probe(r, o, exists) ==
  /\ req[r].pc = "probe"
  /\ LET d == video_duration_seconds(o) IN
     req' = [req EXCEPT ![r] =
       [@ EXCEPT !.pc = IF exists THEN "node" ELSE "insert",
                 !.probe = IF d.ok THEN "ok" ELSE "failed",
                 !.duration_sec = IF d.ok THEN d.seconds ELSE DefaultDurationSec,
                 !.overlay_out = overlay_out_of(req[r].input_path),
                 !.script_exists = exists,
                 !.calls = Append(@, "ffprobe")]]
  /\ UNCHANGED <<projects, files>>

\* Command::new("node")...output().map_err(..)?; adopt overlay_out on success.
Overlay(r, o) ==
  /\ req[r].pc = "node"
  /\ LET cmd == [i |-> req[r].output, vf |-> <<>>, out |-> req[r].overlay_out] IN
     IF ~o.spawn
       THEN /\ req' = [req EXCEPT ![r] = [@ EXCEPT !.pc = "failed", !.err = IoError,
                                                  !.node = "launch error",
                                                  !.node_cmd = cmd,
                                                  !.calls = Append(@, "node")]]
            /\ UNCHANGED files
       ELSE IF o.status = 0
         THEN /\ req' = [req EXCEPT ![r] = [@ EXCEPT !.pc = "insert",
                                                    !.node = "success",
                                                    !.node_cmd = cmd,
                                                    !.node_read = read_file(files, req[r].output),
                                                    !.final_output = req[r].overlay_out,
                                                    !.calls = Append(@, "node")]]
              /\ files' = write_file(files, req[r].overlay_out, req[r].output,
                                     <<Plain("overlay")>>)
         ELSE /\ req' = [req EXCEPT ![r] = [@ EXCEPT !.pc = "insert",
                                                    !.node = "exit nonzero",
                                                    !.node_cmd = cmd,
                                                    !.node_read = read_file(files, req[r].output),
                                                    !.calls = Append(@, "node")]]
              /\ UNCHANGED files
  /\ UNCHANGED projects

\* The record bound to output instead of final_output.
project_record_pre_overlay(q) ==
  [input_path |-> q.input_path, output_path |-> q.output, prompt |-> q.prompt]

project_record(q) ==
  [input_path |-> q.input_path, output_path |-> q.final_output, prompt |-> q.prompt]

\* INSERT INTO projects ..., then Ok(VibeEditResult {..})
Persist(r, db_ok) ==
  /\ req[r].pc = "insert"
  /\ IF db_ok
       THEN /\ projects' = Append(projects, project_record(req[r]))
            /\ req' = [req EXCEPT ![r] =
                 [@ EXCEPT !.pc = "done",
                           !.result = [output_path |-> req[r].final_output,
                                       filters |-> req[r].filters,
                                       used_gemini |-> req[r].used_gemini,
                                       trial_watermark |-> req[r].trial_watermark],
                           !.calls = Append(@, "insert")]]
       ELSE /\ UNCHANGED projects
            /\ req' = [req EXCEPT ![r] = [@ EXCEPT !.pc = "failed", !.err = DbError,
                                                  !.calls = Append(@, "insert")]]
  /\ UNCHANGED files

\* One call at a time, every input and every outcome of the external calls.
Next ==
  \/ \E a \in Args : Invoke(1, a)
  \/ \E r \in Reqs, db_ok \in BOOLEAN : LicenseCheck(r, db_ok)
  \/ \E r \in Reqs, k \in BOOLEAN, reply \in Replies : ResolveFilters(r, k, reply)
  \/ \E r \in Reqs, o \in FfmpegOutcomes : Transcode(r, o)
  \/ \E r \in Reqs, o \in ProbeOutcomes, e \in BOOLEAN : Probe(r, o, e)
  \/ \E r \in Reqs, o \in NodeOutcomes : Overlay(r, o)
  \/ \E r \in Reqs, db_ok \in BOOLEAN : Persist(r, db_ok)

Spec == Init /\ [][Next]_vars

(***************************************************************************)
(* Two calls in flight at once.  The inputs and outcomes are a subset of   *)
(* those of Next; the steps of the two calls interleave freely.            *)
(***************************************************************************)
ConcArgs ==
  [input_path : { <<"a", "clip.mp4">>, <<"a", "take2.mp4">>, <<"b", "clip.mp4">> },
   prompt : {PromptAnimation},
   license_key : { [some |-> FALSE, value |-> ""], Some("GOOD") },
   add_overlay : { [some |-> FALSE, value |-> FALSE] }]

ConcReplies ==
  { [spawn |-> TRUE, exit_ok |-> FALSE, http |-> "-", body |-> NoBody] }

ConcFfmpegOutcomes ==
  { [spawn |-> TRUE, status |-> 0, stderr |-> Stderr(1)],
    [spawn |-> TRUE, status |-> 1, stderr |-> Stderr(1)] }

ConcProbeOutcomes ==
  { [spawn |-> TRUE, status |-> 0, parses |-> TRUE, seconds |-> 12] }

NextConc ==
  \/ \E r \in Reqs, a \in ConcArgs : Invoke(r, a)
  \/ \E r \in Reqs, db_ok \in BOOLEAN : LicenseCheck(r, db_ok)
  \/ \E r \in Reqs, k \in BOOLEAN, reply \in ConcReplies : ResolveFilters(r, k, reply)
  \/ \E r \in Reqs, o \in ConcFfmpegOutcomes : Transcode(r, o)
  \/ \E r \in Reqs, o \in ConcProbeOutcomes, e \in BOOLEAN : Probe(r, o, e)
  \/ \E r \in Reqs, o \in NodeOutcomes : Overlay(r, o)
  \/ \E r \in Reqs, db_ok \in BOOLEAN : Persist(r, db_ok)

SpecConc == Init /\ [][NextConc]_vars

(***************************************************************************)
(* Properties.                                                             *)
(***************************************************************************)
Resolved(q) == q.pc \in {"ffmpeg", "probe", "node", "insert", "done"} \/ Len(q.ffmpeg_cmd.vf) > 0

\* The directives of a comma-joined filter description, in order.
sent_chain(vf) ==
  [i \in 1..((Len(vf) + 1) \div 2) |-> vf[2 * i - 1]]

TrialDirective ==
  [kind |-> "drawtext", font |-> "fontfile=FreeSerif.ttf", text |-> "TRIAL"]

NoOpDirective ==
  [kind |-> "plain", font |-> "", text |-> "hue=s=1"]

ChainHasThree(q) ==
  /\ Len(q.ffmpeg_cmd.vf) = 5
  /\ q.ffmpeg_cmd.vf[2] = Plain(",") /\ q.ffmpeg_cmd.vf[4] = Plain(",")
  /\ Len(sent_chain(q.ffmpeg_cmd.vf)) = 3
  /\ (q.pc = "done" => q.result.filters = sent_chain(q.ffmpeg_cmd.vf))
  /\ (Len(q.candidate) > 3 =>
        /\ sent_chain(q.ffmpeg_cmd.vf)[1] = q.candidate[1]
        /\ sent_chain(q.ffmpeg_cmd.vf)[2] = q.candidate[2])

\* C1 as stated: for every request the chain joined and sent to ffmpeg, and
\* the chain returned, has exactly 3 directives; a candidate longer than 3
\* keeps its first two, and every slot a shorter candidate leaves empty holds
\* the no-op saturation directive.
C1_AsStated ==
  \A r \in Reqs : Resolved(req[r]) =>
    /\ ChainHasThree(req[r])
    /\ \A i \in 1..3 : i > Len(req[r].candidate) =>
         sent_chain(req[r].ffmpeg_cmd.vf)[i] = NoOpDirective

\* C1 amended: as C1, except that the third slot of an unlicensed request
\* holds the TRIAL watermark directive, also when the candidate left it empty.
C1_ChainLengthThree ==
  \A r \in Reqs : Resolved(req[r]) =>
    /\ ChainHasThree(req[r])
    /\ \A i \in 1..3 : i > Len(req[r].candidate) =>
         sent_chain(req[r].ffmpeg_cmd.vf)[i] =
           IF i = 3 /\ ~req[r].licensed THEN TrialDirective ELSE NoOpDirective

C1_Witness ==
  \E r \in Reqs :
    /\ req[r].pc = "done" /\ req[r].used_gemini
    /\ Len(req[r].candidate) = 1 /\ ~req[r].licensed

Unlicensed(q) ==
  ~(q.license_key.some /\ [license_key |-> q.license_key.value, valid |-> 1] \in Licenses)

\* C2: the watermark flag is true exactly when the request is unlicensed (no
\* key, or no record with that exact key and valid = 1); the chain sent to
\* ffmpeg is the normalized candidate with slot 3 replaced by the TRIAL
\* directive exactly when unlicensed, and slots 1 and 2 are never altered.
C2_WatermarkIffUnlicensed ==
  \A r \in Reqs : Resolved(req[r]) =>
    LET q == req[r]
        sent == sent_chain(q.ffmpeg_cmd.vf)
    IN /\ q.trial_watermark = Unlicensed(q)
       /\ (q.pc = "done" => q.result.trial_watermark = Unlicensed(q))
       /\ Len(q.normalized) = 3 /\ Len(sent) = 3
       /\ sent[1] = q.normalized[1] /\ sent[2] = q.normalized[2]
       /\ sent[3] = IF Unlicensed(q) THEN TrialDirective ELSE q.normalized[3]

C2_Witness ==
  \E r \in Reqs :
    /\ req[r].pc = "done" /\ req[r].license_key = Some("REVOKED")
    /\ req[r].used_gemini /\ Len(req[r].candidate) >= 3
    /\ req[r].result.filters[3] = TrialDirective

last_call(q) == IF Len(q.calls) = 0 THEN "" ELSE q.calls[Len(q.calls)]

TranscodeSucceeded(q) ==
  \E i \in 1..Len(q.calls) : q.calls[i] = "ffmpeg" /\ q.ffmpeg_out.spawn /\ q.ffmpeg_out.status = 0

OverlayStageFailed(q) ==
  \/ q.probe = "failed"
  \/ (q.probe # "-" /\ ~q.script_exists)
  \/ q.node \in {"launch error", "exit nonzero"}

\* C3: once ffmpeg has exited successfully, no failure of the overlay stage
\* (probe failure, missing entry point, overlay launch failure, non-zero
\* overlay exit) fails the request: it goes on to the insert, and unless the
\* overlay itself succeeded the output path stays the transcoded path.
C3_OverlayFailureAbsorbed ==
  \A r \in Reqs : (TranscodeSucceeded(req[r]) /\ OverlayStageFailed(req[r])) =>
    /\ (req[r].pc = "failed" => last_call(req[r]) = "insert")
    /\ (req[r].node # "success" => req[r].final_output = req[r].output)
    /\ (req[r].pc = "done" /\ req[r].node # "success" =>
          req[r].result.output_path = req[r].output)

TranscodeFailed(q) ==
  /\ \E i \in 1..Len(q.calls) : q.calls[i] = "ffmpeg"
  /\ ~q.ffmpeg_out.spawn \/ q.ffmpeg_out.status # 0

\* C4: if ffmpeg cannot be launched or exits non-zero the request ends in an
\* error there: no probe, no overlay, no insert, the projects table as it
\* was; with empty diagnostic output the error is the fixed generic message,
\* otherwise it carries at most the first 5 diagnostic lines.
C4_TranscodeFailureFatal ==
  \A r \in Reqs : TranscodeFailed(req[r]) =>
    /\ req[r].pc = "failed"
    /\ last_call(req[r]) = "ffmpeg"
    /\ projects = InitialProjects
    /\ IF Len(req[r].ffmpeg_out.stderr) = 0
         THEN req[r].err = [kind |-> "FFmpeg failed (no stderr)", lines |-> <<>>]
         ELSE /\ req[r].err.kind = "FFmpeg failed:"
              /\ Len(req[r].err.lines) <= 5
              /\ \A i \in 1..Len(req[r].err.lines) :
                   req[r].err.lines[i] = req[r].ffmpeg_out.stderr[i]

EnergeticChain ==
  << [kind |-> "plain", font |-> "", text |-> "setpts=0.85*PTS"],
     [kind |-> "plain", font |-> "", text |-> "hue=s=1.25"],
     [kind |-> "drawtext", font |-> "fontfile=FreeSerif.ttf", text |-> "VIBE: ENERGETIC"] >>

ChillChain ==
  << [kind |-> "plain", font |-> "", text |-> "setpts=1.05*PTS"],
     [kind |-> "plain", font |-> "", text |-> "hue=s=0.8"],
     [kind |-> "drawtext", font |-> "fontfile=FreeSerif.ttf", text |-> "VIBE: CHILL"] >>

ActionChain ==
  << [kind |-> "plain", font |-> "", text |-> "setpts=1.0*PTS"],
     [kind |-> "plain", font |-> "", text |-> "hue=s=1.0"],
     [kind |-> "drawtext", font |-> "fontfile=FreeSerif.ttf", text |-> "VIBE: ACTION"] >>

\* The mood chain each modelled prompt must get, read off the prompt's text.
ExpectedFallback(p) ==
  CASE p = PromptEnergeticCalm -> EnergeticChain
    [] p = PromptBreakfast -> EnergeticChain
    [] p = PromptChill -> ChillChain
    [] p = PromptCalm -> ChillChain
    [] p = PromptAnimation -> ActionChain
    [] p = PromptGo -> ActionChain

RemoteStepFailed(q) ==
  \/ ~q.gemini.ok
  \/ q.http \notin {"200"}

\* C5: the remote path fails as a unit: if any step fails (no credential,
\* transport error, non-success HTTP status, malformed envelope, missing
\* candidate or part, malformed inner JSON, missing filters array) then
\* used_gemini is false and the candidate is the fallback chain of the
\* prompt's mood; used_gemini is true only when every step succeeded, and
\* then the candidate is the remote list alone.
C5_RemoteFailsAsUnit ==
  \A r \in Reqs : Resolved(req[r]) =>
    /\ RemoteStepFailed(req[r]) =>
         /\ ~req[r].used_gemini
         /\ req[r].candidate = ExpectedFallback(req[r].prompt)
    /\ req[r].used_gemini =>
         /\ ~RemoteStepFailed(req[r])
         /\ req[r].candidate = req[r].gemini.filters

OverlayRan(q) == q.node \in {"success", "exit nonzero"}

\* C6: concurrent requests are independent: the overlay engine of a request
\* reads the transcoded file that request's own ffmpeg run wrote, whatever
\* other requests are doing.
C6_RequestsIndependent ==
  \A r \in Reqs : OverlayRan(req[r]) =>
    req[r].node_read = { [path |-> req[r].output, in |-> req[r].input_path,
                          vf |-> req[r].filters] }

\* C7: a request succeeds iff it appended exactly one project record, which
\* holds its input path, its prompt and the returned output path (the overlay
\* path when adopted, else the transcoded path); a request that has not
\* succeeded, or failed (also on a failing insert), appended nothing, and the
\* records that existed are unchanged.
C7_RecordIffSuccess ==
  \A r \in Reqs : req[r].pc # "idle" =>
    LET q == req[r] IN
    /\ q.pc = "done" =>
         /\ projects = Append(InitialProjects,
                              [input_path |-> q.input_path,
                               output_path |-> q.result.output_path,
                               prompt |-> q.prompt])
         /\ q.result.output_path =
              IF q.node = "success" THEN <<q.input_path[1], "vibe_output_overlay.mp4">>
                                    ELSE <<q.input_path[1], "vibe_output.mp4">>
    /\ q.pc # "done" => projects = InitialProjects
    /\ (last_call(q) = "insert" /\ projects = InitialProjects) => q.pc = "failed"

C7_Witness ==
  \E r \in Reqs : req[r].pc = "done" /\ req[r].node = "success" /\ Len(projects) = 2

ExpectedKeywordOverlay(p) ==
  p \in {PromptAnimation, PromptBreakfast}

DecidedToRun(q) ==
  IF q.add_overlay.some THEN q.add_overlay.value ELSE ExpectedKeywordOverlay(q.prompt)

Called(q, name) == \E i \in 1..Len(q.calls) : q.calls[i] = name

\* C8: the final output path of a successful request is the overlay path iff
\* the overlay decision is to run (the explicit flag when given, else the
\* prompt keywords), the entry point exists and the overlay process exited
\* 0; otherwise it is the transcoded path; with the explicit flag false
\* neither ffprobe nor the overlay engine is invoked.
C8_OverlayAdoptedIff ==
  \A r \in Reqs :
    LET q == req[r] IN
    /\ q.pc = "done" =>
         /\ (q.result.output_path = <<q.input_path[1], "vibe_output_overlay.mp4">>)
              <=> (DecidedToRun(q) /\ q.script_exists /\ q.node = "success")
         /\ (q.result.output_path # <<q.input_path[1], "vibe_output_overlay.mp4">>)
              => q.result.output_path = <<q.input_path[1], "vibe_output.mp4">>
    /\ (Called(q, "ffprobe") \/ Called(q, "node")) => DecidedToRun(q)
    /\ (q.pc \in {"probe", "node"}) => DecidedToRun(q)
    /\ (Called(q, "ffmpeg") /\ q.pc \in {"probe", "node", "insert", "done"} /\ DecidedToRun(q))
         => Called(q, "ffprobe") \/ q.pc = "probe"

C8_Witness ==
  \E r \in Reqs :
    /\ req[r].pc = "done" /\ req[r].add_overlay = Some(FALSE)
    /\ req[r].prompt = PromptBreakfast /\ ~Called(req[r], "ffprobe")

StepOrder ==
  <<"license", "curl", "ffmpeg", "ffprobe", "node", "insert">>

StepIndex(name) == CHOOSE i \in 1..Len(StepOrder) : StepOrder[i] = name

InOrderOnce(calls) ==
  \A i, j \in 1..Len(calls) : i < j => StepIndex(calls[i]) < StepIndex(calls[j])

\* C9: within a request the external steps run only in the order license
\* lookup, remote inference, transcoder, probe, overlay engine, insert, each
\* at most once; after a fatal failure no further step runs, and a failed
\* license lookup fails the request with no other step invoked.
C9_StepOrder ==
  [][\A r \in Reqs :
       /\ InOrderOnce(req'[r].calls)
       /\ Len(req'[r].calls) <= Len(req[r].calls) + 1
       /\ SubSeq(req'[r].calls, 1, Len(req[r].calls)) = req[r].calls
       /\ req[r].pc \in {"failed", "done"} => req'[r] = req[r]
       /\ (req[r].pc = "license" /\ req'[r].err = DbError) =>
            (req'[r].pc = "failed" /\ req'[r].calls = <<"license">>)
       /\ (req'[r].err # NoError) => req'[r].pc = "failed"]_vars

C9_Witness ==
  \E r \in Reqs : req[r].pc = "failed" /\ req[r].calls = <<"license">>

\* C10: no engine is told to write the file it reads: ffmpeg's output path
\* differs from its input path for every input, and the overlay engine's
\* output path differs from the transcoded path it reads.
C10_OutputDiffersFromInput ==
  \A r \in Reqs :
    /\ req[r].ffmpeg_cmd # NoCmd => req[r].ffmpeg_cmd.out # req[r].ffmpeg_cmd.i
    /\ req[r].node_cmd # NoCmd => req[r].node_cmd.out # req[r].node_cmd.i
====
